---- MODULE Spec2Model ----
(***************************************************************************)
(* Model of api/batch_processing/postprocessing/                           *)
(* separate_detections_into_folders.py.                                    *)
(*                                                                         *)
(* A path is a sequence of one-character tokens ("/", ":", letters); the   *)
(* names of the output folders are single tokens.  A Python dict is a set  *)
(* of <<key, value>> pairs (None is the empty set); detection_categories   *)
(* is the sequence of its <<id, name>> items in insertion order.           *)
(* Confidences and thresholds are integers 0..MaxConf (a fixed-point       *)
(* scale of [0,1]).                                                        *)
(***************************************************************************)
EXTENDS Integers, Sequences, FiniteSets, TLC

VARIABLES pc, error, argv, helpPrinted, options, resultsDoc, inputTree,
          initialOut, outDirs, outFiles, loaded, task

vars == <<pc, error, argv, helpPrinted, options, resultsDoc, inputTree,
          initialOut, outDirs, outFiles, loaded, task>>

\* ---------------------------------------------------------------- bounds

MaxRecords == 2

MaxDets == 2

MaxConf == 2

\* ------------------------------------------------------------ dictionaries

DictKeys(d) == {e[1] : e \in d}

DictGet(d, k) == (CHOOSE e \in d : e[1] = k)[2]

DictSet(d, k, v) == {e \in d : e[1] # k} \cup {<<k, v>>}

\* A dict key is a str or a float; the two never compare equal.
StrKey(s) == [str |-> s, num |-> -1]

NumKey(n) == [str |-> "", num |-> n]

\* ------------------------------------------------------------------ paths

\* os.path.join (posix): an absolute second component discards the first
PathJoin(a, b) ==
    IF b # <<>> /\ b[1] = "/" THEN b
    ELSE IF a = <<>> \/ a[Len(a)] = "/" THEN a \o b
    ELSE a \o <<"/">> \o b

\* os.path.dirname (posix)
PathDirname(p) ==
    LET slashes == {i \in 1..Len(p) : p[i] = "/"} IN
    IF slashes = {} THEN <<>>
    ELSE LET i == CHOOSE k \in slashes : \A m \in slashes : m <= k
             head == SubSeq(p, 1, i)
             keep == {k \in 1..i : head[k] # "/"}
         IN IF keep = {} THEN head
            ELSE SubSeq(head, 1, CHOOSE k \in keep : \A m \in keep : m <= k)

\* the directories os.makedirs(d, exist_ok=True) leaves in place
RECURSIVE makedirs(_, _)
makedirs(dirs, d) ==
    IF d = <<>> \/ d = <<"/">> \/ d \in dirs THEN dirs
    ELSE makedirs(dirs, PathDirname(d)) \cup {d}

\* os.path.isfile
isfile(tree, p) == p \in DictKeys(tree)

\* copyfile as it would be if an existing destination were kept
copyfileKeepsExisting(files, tree, src, dst) ==
    IF dst \in DictKeys(files) THEN files
    ELSE DictSet(files, dst, DictGet(tree, src))

\* shutil.copyfile: the destination is created or silently overwritten
copyfile(files, tree, src, dst) == DictSet(files, dst, DictGet(tree, src))

\* os.path.isdir(p) and len(os.listdir(p)) > 0
NonEmptyDir(dirs, files, p) ==
    /\ p \in dirs
    /\ \/ \E d \in dirs : d # p /\ PathDirname(d) = p
       \/ \E f \in DictKeys(files) : PathDirname(f) = p

path_is_abs(p) == (Len(p) > 1) /\ (p[1] = "/" \/ p[2] = ":")

\* -------------------------------------------------------- module constants

friendly_folder_names ==
    {<<"animal", "animals">>, <<"person", "people">>, <<"vehicle", "vehicles">>}

base_input_folder == <<"in">>

base_output_folder == <<"out">>


\* class SeparateDetectionsIntoFoldersOptions: the attributes it defines
OptionsAttributes ==
    {"default_threshold", "category_name_to_threshold", "n_threads",
     "allow_existing_directory", "results_file", "base_input_folder",
     "base_output_folder", "category_name_to_folder",
     "category_id_to_category_name"}

\* 0.725 on the scale of the model: the first level above 0
default_threshold == 1

\* ------------------------------------------------------ process_detection

category_names(cats) == [i \in 1..Len(cats) |-> cats[i][2]]

IdKnown(id, cats) == \E i \in 1..Len(cats) : cats[i][1] = id

NameOfId(id, cats) == cats[CHOOSE i \in 1..Len(cats) : cats[i][1] = id][2]

InitialMaxConfidence(cats) ==
    {<<category_names(cats)[i], 0>> : i \in 1..Len(cats)}

\* the loop body as it would be if an unrecognized id fell through to the
\* first category instead of being skipped
UpdateMaxConfidenceNoSkip(acc, det, cats) ==
    LET category_name == IF IdKnown(det.category, cats)
                         THEN NameOfId(det.category, cats)
                         ELSE cats[1][2]
    IN IF det.conf > DictGet(acc, category_name)
       THEN DictSet(acc, category_name, det.conf)
       ELSE acc

\* one iteration of the loop over the detections of a record
UpdateMaxConfidence(acc, det, cats) ==
    IF ~IdKnown(det.category, cats) THEN acc
    ELSE LET category_name == NameOfId(det.category, cats) IN
         IF det.conf > DictGet(acc, category_name)
         THEN DictSet(acc, category_name, det.conf)
         ELSE acc

RECURSIVE FindMaxConfidence(_, _, _)
FindMaxConfidence(dets, cats, acc) ==
    IF dets = <<>> THEN acc
    ELSE FindMaxConfidence(Tail(dets), cats,
                           UpdateMaxConfidence(acc, Head(dets), cats))

category_name_to_max_confidence(d, opts) ==
    FindMaxConfidence(d.detections, opts.category_id_to_category_name,
                      InitialMaxConfidence(opts.category_id_to_category_name))

\* the threshold of one category: the override dict is tested with the
\* category name and then indexed with the threshold
SelectThreshold(category_name, opts) ==
    IF StrKey(category_name) \in DictKeys(opts.category_name_to_threshold)
    THEN IF NumKey(opts.default_threshold)
               \in DictKeys(opts.category_name_to_threshold)
         THEN [err |-> "none",
               val |-> DictGet(opts.category_name_to_threshold,
                               NumKey(opts.default_threshold))]
         ELSE [err |-> "KeyError", val |-> 0]
    ELSE [err |-> "none", val |-> opts.default_threshold]

ExceedsThreshold(max_confidence, threshold) == max_confidence > threshold

RECURSIVE CountThresholds(_, _, _, _)
CountThresholds(names, maxconf, opts, above) ==
    IF names = <<>> THEN [err |-> "none", above |-> above]
    ELSE LET t == SelectThreshold(Head(names), opts) IN
         IF t.err # "none" THEN [err |-> t.err, above |-> <<>>]
         ELSE CountThresholds(Tail(names), maxconf, opts,
                  IF ExceedsThreshold(DictGet(maxconf, Head(names)), t.val)
                  THEN Append(above, Head(names))
                  ELSE above)

categories_above_threshold(d, opts) ==
    CountThresholds(category_names(opts.category_id_to_category_name),
                    category_name_to_max_confidence(d, opts), opts, <<>>)

target_folder(above, opts) ==
    IF Len(above) > 1 THEN DictGet(opts.category_name_to_folder, "multiple")
    ELSE IF Len(above) = 0 THEN DictGet(opts.category_name_to_folder, "empty")
    ELSE DictGet(opts.category_name_to_folder, above[1])

\* the classification half of process_detection: an exception or a folder
ClassifyRecord(d, opts) ==
    LET r == categories_above_threshold(d, opts) IN
    IF r.err # "none" THEN [err |-> r.err, target |-> <<>>]
    ELSE [err |-> "none", target |-> target_folder(r.above, opts)]

source_path(d) == PathJoin(base_input_folder, d.file)

\* the target path as it would be if the relative folders were dropped
target_pathFlat(folder, d) == PathJoin(folder, <<d.file[Len(d.file)]>>)

target_path(folder, d) == PathJoin(folder, d.file)

\* --------------------------------------- separate_detections_into_folders

\* the check as it would be if allow_existing_directory were not consulted
OutputFolderRejectedAlways(dirs, files, opts) ==
    NonEmptyDir(dirs, files, base_output_folder)

OutputFolderRejected(dirs, files, opts) ==
    /\ NonEmptyDir(dirs, files, base_output_folder)
    /\ ~opts.allow_existing_directory

FolderName(category_name) ==
    IF category_name \in DictKeys(friendly_folder_names)
    THEN DictGet(friendly_folder_names, category_name)
    ELSE category_name

RECURSIVE AddCategoryFolders(_, _)
AddCategoryFolders(names, map) ==
    IF names = <<>> THEN map
    ELSE AddCategoryFolders(Tail(names),
             DictSet(map, Head(names),
                     PathJoin(base_output_folder, <<FolderName(Head(names))>>)))

category_name_to_folder(cats) ==
    AddCategoryFolders(category_names(cats),
        {<<"empty", PathJoin(base_output_folder, <<"empty">>)>>,
         <<"multiple", PathJoin(base_output_folder, <<"multiple">>)>>})

MakeAllDirs(dirs, folders) == dirs \cup UNION {makedirs(dirs, f) : f \in folders}


\* ------------------------------------------------------------------ inputs

Seqs(S, n) == UNION {[1..k -> S] : k \in 0..n}

CategoryMaps ==
    {<<<<"1", "animal">>, <<"2", "person">>>>,
     <<<<"1", "animal">>, <<"2", "person">>, <<"3", "vehicle">>>>}

\* "9" is an id no category map holds
Detections == [category : {"1", "2", "9"}, conf : 0..MaxConf]

Overrides ==
    {{}} \cup {{<<StrKey(c), t>>} : c \in {"animal", "vehicle"}, t \in {1, MaxConf}}

FileNames == {<<"a">>, <<"d", "/", "a">>, <<"/">>, <<"/", "a">>, <<"C", ":">>}

RunDetections ==
    {<<>>,
     <<[category |-> "1", conf |-> MaxConf]>>,
     <<[category |-> "1", conf |-> MaxConf], [category |-> "2", conf |-> MaxConf]>>}

InputTrees ==
    {{<<<<"in", "/", "a">>, "A">>, <<<<"in", "/", "d", "/", "a">>, "B">>},
     {<<<<"in", "/", "a">>, "A">>}}

\* the output folder before the run: absent, empty, or left by an earlier run
OutputTrees ==
    {[dirs |-> {}, files |-> {}],
     [dirs |-> {<<"out">>}, files |-> {}],
     [dirs |-> {<<"out">>, <<"out", "/", "animals">>},
      files |-> {<<<<"out", "/", "animals", "/", "a">>, "old">>}]}

NewOptions(threshold, overrides, n, allow) ==
    [default_threshold |-> threshold,
     category_name_to_threshold |-> overrides,
     n_threads |-> n,
     allow_existing_directory |-> allow,
     category_name_to_folder |-> {},
     category_id_to_category_name |-> <<>>]

\* ----------------------------------------------------------------- actions

\* main(): the parser is built, reading the defaults off a fresh options
\* object, before the argument count is looked at; main() ends the process
\* (pc "exit"), with the exception it raised if any
Main ==
    /\ pc = "main"
    /\ IF {"animal_threshold", "human_threshold", "vehicle_threshold",
           "n_threads"} \subseteq OptionsAttributes
       THEN IF Len(argv) = 0
            THEN pc' = "exit" /\ helpPrinted' = TRUE /\ error' = error
            ELSE pc' = "start" /\ helpPrinted' = helpPrinted /\ error' = error
       ELSE pc' = "exit" /\ error' = "AttributeError"
            /\ helpPrinted' = helpPrinted
    /\ UNCHANGED <<argv, options, resultsDoc, inputTree, initialOut, outDirs,
                   outFiles, loaded, task>>

\* the check and the creation of the output folder
CheckOutputFolder ==
    /\ pc = "start"
    /\ IF OutputFolderRejected(outDirs, outFiles, options)
       THEN pc' = "error" /\ error' = "ValueError" /\ outDirs' = outDirs
       ELSE pc' = "load" /\ error' = error
            /\ outDirs' = makedirs(outDirs, base_output_folder)
    /\ UNCHANGED <<argv, helpPrinted, options, resultsDoc, inputTree,
                   initialOut, outFiles, loaded, task>>

\* json.load and the loop that rejects absolute paths
LoadResults ==
    /\ pc = "load"
    /\ loaded' = TRUE
    /\ IF \E i \in 1..Len(resultsDoc.images) :
              path_is_abs(resultsDoc.images[i].file)
       THEN pc' = "error" /\ error' = "AssertionError"
       ELSE pc' = "map" /\ error' = error
    /\ UNCHANGED <<argv, helpPrinted, options, resultsDoc, inputTree,
                   initialOut, outDirs, outFiles, task>>

\* the folder map, the category folders, and the dispatch of the records
BuildFolderMap ==
    /\ pc = "map"
    /\ LET map == category_name_to_folder(resultsDoc.detection_categories) IN
       /\ options' = [options EXCEPT
              !.category_id_to_category_name = resultsDoc.detection_categories,
              !.category_name_to_folder = map]
       /\ outDirs' = MakeAllDirs(outDirs, {e[2] : e \in map})
    /\ task' = [i \in 1..Len(resultsDoc.images) |->
                   [pc |-> "queued", err |-> "none", target |-> <<>>]]
    /\ pc' = "processing"
    /\ UNCHANGED <<error, argv, helpPrinted, resultsDoc, inputTree,
                   initialOut, outFiles, loaded>>

Sequential == options.n_threads <= 1

InFlight == {i \in DOMAIN task : task[i].pc \in {"mkdir", "copy"}}

\* the dispatch as it would be if the pool were used whatever n_threads is
MayStartPoolOnly(i) ==
    /\ i \in DOMAIN task
    /\ task[i].pc = "queued"
    /\ \A j \in 1..(i - 1) : task[j].pc # "queued"
    /\ Cardinality(InFlight) < (IF options.n_threads < 1 THEN 1 ELSE options.n_threads)

\* the records are taken in document order: one at a time in the for loop,
\* at most n_threads at a time in the pool, whose workers nothing stops when
\* the main thread has raised
MayStart(i) ==
    /\ i \in DOMAIN task
    /\ task[i].pc = "queued"
    /\ IF Sequential
       THEN pc = "processing" /\ \A j \in 1..(i - 1) : task[j].pc = "done"
       ELSE /\ \A j \in 1..(i - 1) : task[j].pc # "queued"
            /\ Cardinality(InFlight) < options.n_threads

\* an exception of process_detection leaves the for loop at once; in the
\* pool it is kept as the result of the record
Raise(i, err) ==
    /\ task' = [task EXCEPT ![i].pc = "failed", ![i].err = err]
    /\ IF Sequential
       THEN pc' = "error" /\ error' = err
       ELSE pc' = pc /\ error' = error

\* process_detection up to the choice of the target folder
Classify(i) ==
    /\ MayStart(i)
    /\ LET r == ClassifyRecord(resultsDoc.images[i], options) IN
       IF r.err # "none" THEN Raise(i, r.err)
       ELSE /\ task' = [task EXCEPT ![i].pc = "mkdir", ![i].target = r.target]
            /\ UNCHANGED <<pc, error>>
    /\ UNCHANGED <<argv, helpPrinted, options, resultsDoc, inputTree,
                   initialOut, outDirs, outFiles, loaded>>

\* process_detection: the source file is asserted, the target directory made
MakeTargetDir(i) ==
    /\ i \in DOMAIN task
    /\ task[i].pc = "mkdir"
    /\ LET d == resultsDoc.images[i] IN
       IF ~isfile(inputTree, source_path(d))
       THEN Raise(i, "AssertionError") /\ outDirs' = outDirs
       ELSE /\ outDirs' = makedirs(outDirs,
                                   PathDirname(target_path(task[i].target, d)))
            /\ task' = [task EXCEPT ![i].pc = "copy"]
            /\ UNCHANGED <<pc, error>>
    /\ UNCHANGED <<argv, helpPrinted, options, resultsDoc, inputTree,
                   initialOut, outFiles, loaded>>

\* process_detection: shutil.copyfile
CopyFile(i) ==
    /\ i \in DOMAIN task
    /\ task[i].pc = "copy"
    /\ LET d == resultsDoc.images[i] IN
       outFiles' = copyfile(outFiles, inputTree, source_path(d),
                            target_path(task[i].target, d))
    /\ task' = [task EXCEPT ![i].pc = "done"]
    /\ UNCHANGED <<pc, error, argv, helpPrinted, options, resultsDoc,
                   inputTree, initialOut, outDirs, loaded>>

\* the result the main thread is waiting for: the first, in document order,
\* that is not a completed one
Pending == {i \in DOMAIN task : task[i].pc # "done"}

FirstPending == CHOOSE i \in Pending : \A j \in Pending : i <= j

\* the end of the for loop, or of list(pool.imap(...)), which raises the
\* exception of the first failed record it comes to
FinishRun ==
    /\ pc = "processing"
    /\ IF Pending = {}
       THEN pc' = "done" /\ error' = error
       ELSE /\ ~Sequential
            /\ task[FirstPending].pc = "failed"
            /\ pc' = "error"
            /\ error' = task[FirstPending].err
    /\ UNCHANGED <<argv, helpPrinted, options, resultsDoc, inputTree,
                   initialOut, outDirs, outFiles, loaded, task>>

Next ==
    \/ Main
    \/ CheckOutputFolder
    \/ LoadResults
    \/ BuildFolderMap
    \/ \E i \in 1..(MaxRecords + 1) : Classify(i)
    \/ \E i \in 1..(MaxRecords + 1) : MakeTargetDir(i)
    \/ \E i \in 1..(MaxRecords + 1) : CopyFile(i)
    \/ FinishRun

\* ------------------------------------------------------------ initial states

\* the program is entered at main(), which builds its own options object, or
\* at separate_detections_into_folders(options) with options set by the caller

InitCommon ==
    /\ pc \in {"main", "start"}
    /\ argv \in (IF pc = "main" THEN {<<>>, <<"r", "i", "o">>} ELSE {<<>>})
    /\ error = "none"
    /\ helpPrinted = FALSE
    /\ loaded = FALSE
    /\ task = <<>>

\* runs over documents of up to MaxRecords records, with the file system varied
Init ==
    /\ InitCommon
    /\ \E n \in {1, 2}, allow \in BOOLEAN, o \in {{}, {<<StrKey("animal"), 1>>}} :
          /\ pc = "main" => (n = 1 /\ ~allow /\ o = {})
          /\ options = NewOptions(default_threshold, o, n, allow)
    /\ \E images \in Seqs([file : FileNames, detections : RunDetections],
                          MaxRecords) :
          resultsDoc = [detection_categories |->
                            <<<<"1", "animal">>, <<"2", "person">>>>,
                        images |-> images]
    /\ inputTree \in InputTrees
    /\ initialOut \in OutputTrees
    /\ outDirs = initialOut.dirs
    /\ outFiles = initialOut.files

Spec == Init /\ [][Next]_vars

\* one record with up to MaxDets detections of any category and confidence,
\* under every threshold setting
InitClassify ==
    /\ InitCommon
    /\ \E t \in 1..MaxConf, o \in Overrides, n \in {1, 2} :
          /\ pc = "main" => (t = default_threshold /\ n = 1 /\ o = {})
          /\ options = NewOptions(t, o, n, FALSE)
    /\ \E cats \in CategoryMaps, dets \in Seqs(Detections, MaxDets) :
          resultsDoc = [detection_categories |-> cats,
                        images |-> <<[file |-> <<"a">>, detections |-> dets]>>]
    /\ inputTree = {<<<<"in", "/", "a">>, "A">>}
    /\ initialOut = [dirs |-> {}, files |-> {}]
    /\ outDirs = initialOut.dirs
    /\ outFiles = initialOut.files

SpecClassify == InitClassify /\ [][Next]_vars


\* ------------------------------------------------- what the claims speak of

Images == resultsDoc.images

\* the greatest confidence among the detections of record d whose category
\* id the document maps to the category name, 0.0 when there is none
ClaimMaxConfidence(d, name) ==
    LET cats == resultsDoc.detection_categories
        S == {d.detections[k].conf : k \in
                {k \in 1..Len(d.detections) :
                    \E c \in 1..Len(cats) :
                        /\ cats[c][1] = d.detections[k].category
                        /\ cats[c][2] = name}}
    IN IF S = {} THEN 0 ELSE CHOOSE m \in S : \A x \in S : x <= m

Overridden == {k.str : k \in DictKeys(options.category_name_to_threshold)}

\* the threshold of a category: its override if it has one, else the default
ClaimThreshold(name) ==
    IF name \in Overridden
    THEN DictGet(options.category_name_to_threshold, StrKey(name))
    ELSE options.default_threshold

ClaimCategories ==
    {resultsDoc.detection_categories[c][2] :
        c \in 1..Len(resultsDoc.detection_categories)}

ClaimAbove(d) ==
    {name \in ClaimCategories : ClaimMaxConfidence(d, name) > ClaimThreshold(name)}

ClaimFolderOf(name) ==
    <<"out", "/", CASE name = "animal" -> "animals"
                    [] name = "person" -> "people"
                    [] name = "vehicle" -> "vehicles"
                    [] OTHER -> name>>

ClaimFolders == {ClaimFolderOf(n) : n \in ClaimCategories \cup {"empty", "multiple"}}

\* 0 categories above threshold: empty; 1: that category; 2 or more: multiple
ClaimFolder(d) ==
    LET above == ClaimAbove(d) IN
    IF above = {} THEN ClaimFolderOf("empty")
    ELSE IF Cardinality(above) = 1 THEN ClaimFolderOf(CHOOSE n \in above : TRUE)
    ELSE ClaimFolderOf("multiple")

Classified(i) == i \in DOMAIN task /\ task[i].pc # "queued"

Copied(i) == i \in DOMAIN task /\ task[i].pc = "done"

SomeFailed == \E i \in DOMAIN task : task[i].pc = "failed"

BytesOf(d) == DictGet(inputTree, <<"in", "/">> \o d.file)

\* ------------------------------------------------------------------ claims

\* C1: every record that process_detection has classified has the target
\* folder the count of its categories above threshold gives: empty for 0,
\* the folder of the category for 1, multiple for 2 or more.
C1_TargetByCount ==
    \A i \in 1..Len(Images) : Classified(i) => task[i].target = ClaimFolder(Images[i])

\* C2: with an override configured for a category of the document,
\* classification raises no error and decides each category against its own
\* threshold, override or default.
C2_OverrideUsed ==
    \A i \in 1..Len(Images) :
        (Classified(i) /\ Overridden \cap ClaimCategories # {})
            => /\ task[i].err # "KeyError"
               /\ task[i].target = ClaimFolder(Images[i])


\* the two claims above hold of every run in which no category of the
\* document has an override
NoOverride_TargetByCount ==
    (Overridden \cap ClaimCategories = {}) => C1_TargetByCount

\* the destinations of all records, and what a completed run leaves there
Destination(d) == ClaimFolder(d) \o <<"/">> \o d.file

HoldersOf(d) ==
    {F \in ClaimFolders : (F \o <<"/">> \o d.file) \in DictKeys(outFiles)}

\* C3 as stated: after a completed run every listed path is under exactly
\* one category folder, with the bytes of the source file.
C3_ExactlyOneFolder ==
    pc = "done" =>
        \A i \in 1..Len(Images) :
            /\ Cardinality(HoldersOf(Images[i])) = 1
            /\ \A F \in HoldersOf(Images[i]) :
                  <<F \o <<"/">> \o Images[i].file, BytesOf(Images[i])>> \in outFiles

\* C3 amended: after a completed run every listed path is, unmodified and
\* with the bytes of the source file, under the category folder chosen for
\* its record; any other category folder that holds the path held it before
\* the run, or was chosen for another record that lists the same path.
C3_CopiedToTarget ==
    pc = "done" =>
        \A i \in 1..Len(Images) :
            /\ <<Destination(Images[i]), BytesOf(Images[i])>> \in outFiles
            /\ \A F \in HoldersOf(Images[i]) :
                  \/ \E j \in 1..Len(Images) :
                        /\ Images[j].file = Images[i].file
                        /\ F = ClaimFolder(Images[j])
                  \/ \E e \in initialOut.files :
                        /\ e[1] = F \o <<"/">> \o Images[i].file
                        /\ e \in outFiles

C3_Witness ==
    /\ pc = "done"
    /\ \E i \in 1..Len(Images) :
          /\ Images[i].file = <<"d", "/", "a">>
          /\ <<<<"out", "/", "animals", "/", "d", "/", "a">>, "B">> \in outFiles

\* an absolute path, as the claim has it: one that starts with "/" or with a
\* drive letter and a colon
ClaimAbsolute(p) == (Len(p) >= 1 /\ p[1] = "/") \/ (Len(p) >= 2 /\ p[2] = ":")

\* C4: when a record of the document has an absolute path no record is
\* processed and no file copied, the records before it included.
C4_AbsolutePathAborts ==
    (\E i \in 1..Len(Images) : ClaimAbsolute(Images[i].file))
        => /\ \A j \in 1..Len(Images) : ~Copied(j)
           /\ outFiles = initialOut.files

\* what holds of the absolute paths path_is_abs does recognise
Recognised_AbsolutePathAborts ==
    (\E i \in 1..Len(Images) : path_is_abs(Images[i].file))
        => /\ task = <<>>
           /\ outFiles = initialOut.files

OutputWasNonEmpty ==
    NonEmptyDir(initialOut.dirs, initialOut.files, base_output_folder)

\* C5: from a non-empty output folder, a run without
\* allow_existing_directory ends in ValueError with nothing loaded and the
\* folder as it was; a run with it goes on to load the results.
C5_ExistingOutputFolder ==
    (OutputWasNonEmpty /\ pc \notin {"main", "exit", "start"})
        => IF options.allow_existing_directory
           THEN /\ error # "ValueError"
                /\ pc \in {"load", "map", "processing", "done", "error"}
                /\ (pc # "load" => loaded)
           ELSE /\ pc = "error" /\ error = "ValueError"
                /\ ~loaded
                /\ task = <<>>
                /\ outDirs = initialOut.dirs
                /\ outFiles = initialOut.files

C5_Witness ==
    /\ OutputWasNonEmpty
    /\ ~options.allow_existing_directory
    /\ pc = "error"
    /\ error = "ValueError"

\* with the flag set a file of the earlier run is overwritten
C5_Overwritten ==
    /\ OutputWasNonEmpty
    /\ options.allow_existing_directory
    /\ <<<<"out", "/", "animals", "/", "a">>, "old">> \in initialOut.files
    /\ <<<<"out", "/", "animals", "/", "a">>, "A">> \in outFiles


\* C6 as stated: once the processing of a record has failed, no record is
\* copied any more.
C6_NoCopyAfterFailure ==
    [][SomeFailed => \A j \in DOMAIN task : Copied(j)' => Copied(j)]_vars

\* C6 amended: a failed record keeps the run from completing and the files
\* already copied stay in place; with n_threads <= 1 the failure ends the run
\* at once and no record is copied after it (with n_threads > 1 the records
\* other workers hold can still be copied).
C6_FailurePropagates ==
    [][/\ SomeFailed' => pc' # "done"
       /\ \A e \in outFiles : e[1] \in DictKeys(outFiles')
       /\ (Sequential /\ SomeFailed') =>
             /\ pc' = "error"
             /\ error' \in {task'[j].err : j \in {k \in DOMAIN task' : task'[k].pc = "failed"}}
       /\ (Sequential /\ SomeFailed) =>
             /\ outFiles' = outFiles
             /\ \A j \in DOMAIN task : Copied(j)' => Copied(j)
       /\ (~Sequential /\ pc = "processing" /\ pc' = "error") =>
             /\ SomeFailed
             /\ error' = task[FirstPending].err]_vars

C6_Witness ==
    /\ Sequential
    /\ pc = "error"
    /\ Len(task) = 2
    /\ task[1].pc = "done"
    /\ task[2].pc = "failed"
    /\ error = "AssertionError"
    /\ outFiles # initialOut.files

\* the directories above a path
Parents(p) == {SubSeq(p, 1, k - 1) : k \in {k \in 2..Len(p) : p[k] = "/"}}

Destinations == {Destination(Images[i]) : i \in 1..Len(Images)}

\* what a run over the set of the records leaves, whatever their order
ExpectedFiles ==
    {<<Destination(Images[i]), BytesOf(Images[i])>> : i \in 1..Len(Images)}
        \cup {e \in initialOut.files : e[1] \notin Destinations}

ExpectedDirs ==
    initialOut.dirs \cup {<<"out">>} \cup ClaimFolders
        \cup UNION {Parents(p) : p \in Destinations}

\* C7: a completed run, sequential or pooled, under every interleaving and
\* for every order of the records, leaves the tree that the set of the
\* records determines; and once the records are dispatched no step writes
\* the options or the folder map.
C7_OrderIndependent ==
    /\ [](pc = "done" => (outFiles = ExpectedFiles /\ outDirs = ExpectedDirs))
    /\ [][task # <<>> => options' = options]_vars

C7_Witness ==
    /\ pc = "done"
    /\ ~Sequential
    /\ Len(Images) = 2
    /\ Images[1].file # Images[2].file
    /\ ClaimFolder(Images[1]) = ClaimFolder(Images[2])

\* record d without the detections whose category id the document lacks
Recognised(d) ==
    [d EXCEPT !.detections =
        SelectSeq(d.detections,
                  LAMBDA det : \E c \in 1..Len(resultsDoc.detection_categories) :
                                  resultsDoc.detection_categories[c][1] = det.category)]

AtThreshold(d) ==
    /\ Len(d.detections) >= 1
    /\ \A k \in 1..Len(d.detections) :
          \E c \in 1..Len(resultsDoc.detection_categories) :
              /\ resultsDoc.detection_categories[c][1] = d.detections[k].category
              /\ d.detections[k].conf
                    = ClaimThreshold(resultsDoc.detection_categories[c][2])

\* C9: a record whose only detections sit exactly at the threshold of their
\* category is assigned to the empty folder.
C9_StrictComparison ==
    \A i \in 1..Len(Images) :
        (Classified(i) /\ AtThreshold(Images[i]))
            => task[i].target = ClaimFolderOf("empty")

\* C9 holds of every run in which no category of the document has an override
NoOverride_StrictComparison ==
    (Overridden \cap ClaimCategories = {}) => C9_StrictComparison

\* C10: main() called with no arguments prints the help and exits without
\* error.
C10_NoArgumentsPrintsHelp ==
    (pc = "exit" /\ argv = <<>>) => (helpPrinted /\ error = "none")

====
